---------------------------- MODULE Spec2Model ----------------------------
(***************************************************************************)
(* Model of moonlink's data-file compaction core                           *)
(* (storage/compaction/compactor.rs, CompactionBuilder) and of the         *)
(* two-partition batch id counter                                          *)
(* (storage/mooncake_table/batch_id_counter.rs, BatchIdCounter).           *)
(*                                                                         *)
(* Conventions                                                             *)
(*   Option<T>        : None is <<>>, Some(x) is <<x>>.                    *)
(*   RecordLocation   : DiskFile(file_id, row_idx) is the pair             *)
(*                      <<file_id, row_idx>>.                              *)
(*   HashMap<K, V>    : a function whose DOMAIN is the key set.            *)
(*   record batch     : its number of rows (row payloads are opaque to     *)
(*                      the compactor; only positions matter).             *)
(*   u64 counter      : the batch id counter is CounterBits wide instead   *)
(*                      of 64, so that 2^63 is Half and 2^64 is Modulus.   *)
(***************************************************************************)
EXTENDS Integers, Sequences, FiniteSets, TLC

(***************************************************************************)
(* Bounds of the model.                                                    *)
(***************************************************************************)
\* Largest number of input files in a compaction payload.
MaxFiles == 2
\* Largest number of rows of one input file.
MaxRows == 2
\* Largest first id of the table auto-increment id range.
MaxStart == 1
\* Largest length of the table auto-increment id range.
MaxRangeLen == 2
\* Largest target size (bytes) for a compacted data file.
MaxTarget == 2
\* Width in bits of the modelled batch id counter (64 in the program).
CounterBits == 5
\* Largest number of successful next() calls of one concurrent caller.
MaxCalls == 2

(***************************************************************************)
(* Collaborators outside compactor.rs.                                     *)
(***************************************************************************)
\* storage_utils::NUM_FILES_PER_FLUSH, scaled down so that a compaction
\* crosses a table auto-increment id.
NUM_FILES_PER_FLUSH == 2

\* storage_utils::get_unique_file_id_for_flush: the packing of
\* (table_auto_incr_id, file_idx) into one file id.
get_unique_file_id_for_flush(table_auto_incr_id, file_idx) ==
    table_auto_incr_id * NUM_FILES_PER_FLUSH + file_idx

\* Bytes one buffered row takes in the columnar writer.
RowBytes == 1
\* Bytes of the columnar file's fixed framing (magic and footer).
FooterBytes == 1

\* AsyncArrowWriter::memory_size: in-memory footprint of a writer that
\* buffered `rows` rows.
memory_size(rows) == rows * RowBytes

\* AsyncArrowWriter::bytes_written after finish().
bytes_written(rows) == FooterBytes + rows * RowBytes

\* BatchDeletionVector::is_deleted.
is_deleted(batch_deletion_vector, row_idx) == row_idx \in batch_deletion_vector

\* BatchDeletionVector::is_empty.
is_empty(batch_deletion_vector) == batch_deletion_vector = {}

\* BatchDeletionVector::apply_to_batch_with_slice: the positions 0..n-1 of a
\* batch of n rows that are kept when the batch's first row is taken to be
\* row start_row_idx of the file.
apply_to_batch_with_slice(batch_deletion_vector, n, start_row_idx) ==
    {j \in 0..(n - 1) : ~is_deleted(batch_deletion_vector, start_row_idx + j)}

(***************************************************************************)
(* The object storage cache, a collaborator known by its contract.         *)
(***************************************************************************)
\* The file that a cache call on file_id evicted.
EvictedFile(call, file_id) == [call |-> call, file_id |-> file_id]

\* ObjectStorageCache::get_cache_entry: a pinned handle when the cache
\* serves the file (none when the file is read in place), the files evicted
\* to make room, and the cache afterwards.
get_cache_entry(cache, file_id) ==
    LET cache_handle == IF file_id \in cache.cached THEN <<file_id>> ELSE <<>>
        evicted_files == IF cache.evicts_on_get
                         THEN <<EvictedFile("get_cache_entry", file_id)>>
                         ELSE <<>>
    IN  [cache_handle |-> cache_handle,
         evicted_files |-> evicted_files,
         cache |-> [cache EXCEPT !.handles = @ \o cache_handle,
                                 !.evicted = @ \o evicted_files]]

\* NonEvictableHandle::unreference: unpins the handle and returns the files
\* the cache evicts in consequence.
unreference(cache, cache_handle) ==
    LET evicted_files == IF cache.evicts_on_unreference
                         THEN <<EvictedFile("unreference", cache_handle)>>
                         ELSE <<>>
    IN  [evicted_files |-> evicted_files,
         cache |-> [cache EXCEPT !.unreferenced = Append(@, cache_handle),
                                 !.evicted = @ \o evicted_files]]

(***************************************************************************)
(* Small helpers.                                                          *)
(***************************************************************************)
None == <<>>
Some(x) == <<x>>
IsSome(o) == o # None
Unwrap(o) == o[1]

DiskFile(file_id, row_idx) == <<file_id, row_idx>>

EmptyMap == [k \in {} |-> 0]

\* HashMap::extend: entries of `other` replace entries of `map` with the same key.
Extend(map, other) == other @@ map

RECURSIVE SumRows(_)
SumRows(files) ==
    IF files = <<>> THEN 0 ELSE files[1].num_rows + SumRows(Tail(files))


(***************************************************************************)
(* State.                                                                  *)
(***************************************************************************)
VARIABLES
    \* DataCompactionPayload::disk_files as handed to CompactionBuilder::new:
    \* the input file ids, in payload order.
    payload,
    \* CompactionFileParams: [start, end) of table_auto_incr_ids and
    \* data_file_final_size.
    file_params,
    \* The mutable fields of CompactionBuilder: disk_files (inputs not yet
    \* taken), new_data_files, cur_arrow_writer, cur_new_data_file,
    \* cur_row_num, compacted_file_count.
    self,
    \* Locals of the running apply_deletion_vector_and_write call (None
    \* between calls): data_file_to_compact, the reader's rows left,
    \* batch_deletion_vector, old_start_row_idx, old_to_new_remap,
    \* record_loc_to_data_file_index_map, cache_handle,
    \* evicted_files_to_delete.
    frame,
    \* Locals of compact_data_files, later the parts build() takes from it.
    old_to_new_remap,
    record_loc_to_data_file_index,
    \* Where build() stands.
    pc,
    \* The assertion that stopped build(), "" while none did.
    panic,
    \* DataCompactionResult returned by build() (None until it returns).
    result,
    \* What the inputs read so far contained: per input file, in payload
    \* order, its id, its number of rows and the rows its deletion vector marks.
    inputs,
    \* DataCompactionPayload::object_storage_cache: how this cache answers
    \* (cached: the input files it serves through a pinned handle;
    \* evicts_on_get, evicts_on_unreference: whether these calls evict a
    \* file), and what it was asked so far, in call order: the handles it
    \* returned, the handles unreferenced, the evicted files it returned.
    object_storage_cache,
    \* Local of compact_data_files, later the part build() takes from it.
    evicted_files_to_delete

cacheVars == <<object_storage_cache, evicted_files_to_delete>>

compactionVars ==
    <<payload, file_params, self, frame, old_to_new_remap,
      record_loc_to_data_file_index, pc, panic, result, inputs, cacheVars>>

VARIABLES
    \* BatchIdCounter::counter, the shared atomic.
    counter,
    \* BatchIdCounter::is_streaming.
    is_streaming,
    \* Per caller of the counter: where it stands in next() (pc), the local
    \* `current` of next(), the ids its next() calls returned (ids), and its
    \* last completed call (last_call: the operation, the counter value just
    \* before the call's atomic access, and the value returned).
    callers,
    \* The number of next() calls that completed, one after the other, before
    \* the callers of `callers` started: they returned the issued_before ids
    \* that follow the initial value of the counter.
    issued_before

counterVars == <<counter, is_streaming, callers, issued_before>>

vars == <<compactionVars, counterVars>>

(***************************************************************************)
(* CompactionBuilder: file ids and the output writer.                      *)
(***************************************************************************)
\* Range<u32>::contains.
\* Faulty variant of RangeContains: the end of the range is included.
RangeContainsInclusive(range, x) == range.start <= x /\ x <= range.end

RangeContains(range, x) == range.start <= x /\ x < range.end

\* CompactionBuilder::get_next_file_id. The assertion on the id range is the
\* field ok; the id is meaningful only when ok.
get_next_file_id(b, range) ==
    LET unique_table_auto_incre_id_offset == b.compacted_file_count \div NUM_FILES_PER_FLUSH
        cur_table_auto_incr_id == range.start + unique_table_auto_incre_id_offset
        cur_file_idx == b.compacted_file_count
                            - NUM_FILES_PER_FLUSH * unique_table_auto_incre_id_offset
    IN  [ok |-> RangeContains(range, cur_table_auto_incr_id),
         file_id |-> get_unique_file_id_for_flush(cur_table_auto_incr_id, cur_file_idx)]

\* CompactionBuilder::initialize_arrow_writer_if_not with create_new_data_file:
\* the builder afterwards and the assertion that failed, if one did.
initialize_arrow_writer_if_not(b, range) ==
    IF IsSome(b.cur_arrow_writer)
    THEN [b |-> b,
          panic |-> IF IsSome(b.cur_new_data_file) THEN "" ELSE "writer without data file"]
    ELSE LET next == get_next_file_id(b, range) IN
         IF IsSome(b.cur_new_data_file)
         THEN [b |-> b, panic |-> "data file already open"]
         ELSE IF ~next.ok
         THEN [b |-> b, panic |-> "file id range exhausted"]
         ELSE [b |-> [b EXCEPT !.cur_new_data_file = Some(next.file_id),
                               !.cur_arrow_writer = Some(0)],
               panic |-> ""]

\* AsyncArrowWriter::write of a batch of num_rows rows.
write(b, num_rows) ==
    [b EXCEPT !.cur_arrow_writer = Some(Unwrap(@) + num_rows)]

\* Faulty variant of flush_arrow_writer: cur_new_data_file is not taken.
flush_arrow_writer_keeps_data_file(b) ==
    LET file_size == bytes_written(Unwrap(b.cur_arrow_writer)) IN
    IF ~(file_size > 0) \/ ~(b.cur_row_num > 0)
    THEN [b |-> b, panic |-> "empty output file"]
    ELSE [b |-> [b EXCEPT
                    !.new_data_files =
                        Append(@, [file_id |-> Unwrap(b.cur_new_data_file),
                                   num_rows |-> b.cur_row_num,
                                   file_size |-> file_size]),
                    !.cur_arrow_writer = None,
                    !.cur_row_num = 0,
                    !.compacted_file_count = @ + 1],
          panic |-> ""]

\* Faulty variant of flush_arrow_writer: cur_row_num is not reset.
flush_arrow_writer_keeps_row_num(b) ==
    LET file_size == bytes_written(Unwrap(b.cur_arrow_writer)) IN
    IF ~(file_size > 0) \/ ~(b.cur_row_num > 0)
    THEN [b |-> b, panic |-> "empty output file"]
    ELSE [b |-> [b EXCEPT
                    !.new_data_files =
                        Append(@, [file_id |-> Unwrap(b.cur_new_data_file),
                                   num_rows |-> b.cur_row_num,
                                   file_size |-> file_size]),
                    !.cur_arrow_writer = None,
                    !.cur_new_data_file = None,
                    !.compacted_file_count = @ + 1],
          panic |-> ""]

\* Faulty variant of flush_arrow_writer: compacted_file_count is not
\* incremented.
flush_arrow_writer_keeps_file_count(b) ==
    LET file_size == bytes_written(Unwrap(b.cur_arrow_writer)) IN
    IF ~(file_size > 0) \/ ~(b.cur_row_num > 0)
    THEN [b |-> b, panic |-> "empty output file"]
    ELSE [b |-> [b EXCEPT
                    !.new_data_files =
                        Append(@, [file_id |-> Unwrap(b.cur_new_data_file),
                                   num_rows |-> b.cur_row_num,
                                   file_size |-> file_size]),
                    !.cur_arrow_writer = None,
                    !.cur_new_data_file = None,
                    !.cur_row_num = 0],
          panic |-> ""]

\* CompactionBuilder::flush_arrow_writer.
flush_arrow_writer(b) ==
    LET file_size == bytes_written(Unwrap(b.cur_arrow_writer)) IN
    IF ~(file_size > 0) \/ ~(b.cur_row_num > 0)
    THEN [b |-> b, panic |-> "empty output file"]
    ELSE [b |-> [b EXCEPT
                    !.new_data_files =
                        Append(@, [file_id |-> Unwrap(b.cur_new_data_file),
                                   num_rows |-> b.cur_row_num,
                                   file_size |-> file_size]),
                    !.cur_arrow_writer = None,
                    !.cur_new_data_file = None,
                    !.cur_row_num = 0,
                    !.compacted_file_count = @ + 1],
          panic |-> ""]

(***************************************************************************)
(* apply_deletion_vector_and_write: one decoded record batch.              *)
(***************************************************************************)
\* Faulty variant of get_filtered_record_batch: the deletion vector is not
\* applied.
get_filtered_record_batch_unfiltered(batch_deletion_vector, cur_num_rows, start_row_idx) ==
    0..(cur_num_rows - 1)

\* The closure get_filtered_record_batch: the kept positions of the batch.
get_filtered_record_batch(batch_deletion_vector, cur_num_rows, start_row_idx) ==
    IF is_empty(batch_deletion_vector)
    THEN 0..(cur_num_rows - 1)
    ELSE apply_to_batch_with_slice(batch_deletion_vector, cur_num_rows, start_row_idx)

\* old_start_row_idx after a batch whose filtered batch has no rows
\* (the `continue` of the loop).
CursorAfterEmptyBatch(old_start_row_idx, cur_num_rows) == old_start_row_idx

\* old_start_row_idx after a batch that was written.
CursorAfterWrittenBatch(old_start_row_idx, cur_num_rows) ==
    old_start_row_idx + cur_num_rows

\* Faulty variant of new_record_location: row indices start at 1.
new_record_location_one_based(b) ==
    DiskFile(Unwrap(b.cur_new_data_file), b.cur_row_num + 1)

\* The post-compaction location given to the next surviving row.
new_record_location(b) == DiskFile(Unwrap(b.cur_new_data_file), b.cur_row_num)

\* Faulty variant of data_file_index: ordinals start at 1.
data_file_index_one_based(b) == b.compacted_file_count + 1

\* The value stored for a post-compaction location in
\* record_loc_to_data_file_index_map.
data_file_index(b) == b.compacted_file_count

\* Faulty variant of advance_row_num: the increment is missing.
advance_row_num_skipped(b) == b

\* cur_row_num after a surviving row was given its new location.
advance_row_num(b) == [b EXCEPT !.cur_row_num = @ + 1]

\* Faulty variant of RowRange: the rows are visited last to first.
RowRangeReversed(old_start_row_idx, cur_num_rows) ==
    [i \in 1..cur_num_rows |-> old_start_row_idx + cur_num_rows - i]

\* The row indices the for loop visits, in order:
\* old_start_row_idx..(old_start_row_idx + cur_num_rows).
RowRange(old_start_row_idx, cur_num_rows) ==
    [i \in 1..cur_num_rows |-> old_start_row_idx + i - 1]

\* The for loop over the rows of one batch: st holds the builder b, the two
\* maps of the call and the failed assertion; rows are the indices left.
RECURSIVE RemapRows(_, _, _, _)
RemapRows(st, file_id, batch_deletion_vector, rows) ==
    IF rows = <<>> \/ st.panic # ""
    THEN st
    ELSE IF is_deleted(batch_deletion_vector, Head(rows))
    THEN RemapRows(st, file_id, batch_deletion_vector, Tail(rows))
    ELSE LET old_record_location == DiskFile(file_id, Head(rows))
             new_loc == new_record_location(st.b)
             remapped_record_location ==
                 [record_location |-> new_loc,
                  new_data_file |-> Unwrap(st.b.cur_new_data_file)]
             old_entry_is_none == old_record_location \notin DOMAIN st.remap
         IN  RemapRows(
                 [b |-> advance_row_num(st.b),
                  index_map |-> (new_loc :> data_file_index(st.b)) @@ st.index_map,
                  remap |-> (old_record_location :> remapped_record_location) @@ st.remap,
                  panic |-> IF old_entry_is_none THEN "" ELSE "duplicate remap key"],
                 file_id, batch_deletion_vector, Tail(rows))

(***************************************************************************)
(* compact_file_indices and its collaborators.                             *)
(***************************************************************************)
\* CompactionBuilder::get_new_compacted_data_files: the produced files in
\* order; ok is the assertion prev_file_id < file_id at every file.
RECURSIVE CheckFileIdOrder(_, _)
CheckFileIdOrder(prev_file_id, files) ==
    IF files = <<>> THEN TRUE
    ELSE prev_file_id < files[1].file_id
         /\ CheckFileIdOrder(files[1].file_id, Tail(files))

get_new_compacted_data_files(b) ==
    [ok |-> CheckFileIdOrder(0, b.new_data_files),
     files |-> [i \in 1..Len(b.new_data_files) |-> b.new_data_files[i].file_id]]

\* GlobalIndexBuilder::build_from_merge_for_compaction: the merged index
\* keeps, for every row the remap keeps, its new location and the ordinal
\* that get_seg_idx returns for it; ok is false when get_seg_idx unwraps a
\* missing entry.
build_from_merge_for_compaction(num_rows, file_id, new_files, remap, index_map) ==
    LET posts == {remap[pre].record_location : pre \in DOMAIN remap} IN
    [ok |-> posts \subseteq DOMAIN index_map,
     index |-> [file_id |-> file_id,
                num_rows |-> num_rows,
                data_files |-> new_files,
                seg_idx |-> [post \in posts \cap DOMAIN index_map |-> index_map[post]]]]

(***************************************************************************)
(* Initial state: a builder just made by CompactionBuilder::new.           *)
(***************************************************************************)
\* The payloads tried: k input files with distinct ids, listed in
\* descending id order so that payload order differs from id order.
Payloads == {[i \in 1..k |-> k + 1 - i] : k \in 0..MaxFiles}

\* The file parameters tried: the id range starts at 0 or at MaxStart and
\* holds 0..MaxRangeLen ids; the target size is 0 (every file rolls) or
\* MaxTarget.
FileParams ==
    {[table_auto_incr_ids |-> [start |-> s, end |-> s + l], data_file_final_size |-> t] :
        s \in {0, MaxStart}, l \in 0..MaxRangeLen, t \in {0, MaxTarget}}

\* A cache that was not asked anything yet.
NewCache(cached, evicts_on_get, evicts_on_unreference) ==
    [cached |-> cached,
     evicts_on_get |-> evicts_on_get,
     evicts_on_unreference |-> evicts_on_unreference,
     handles |-> <<>>,
     unreferenced |-> <<>>,
     evicted |-> <<>>]

NewBuilder(disk_files) ==
    [disk_files |-> disk_files,
     new_data_files |-> <<>>,
     cur_arrow_writer |-> None,
     cur_new_data_file |-> None,
     cur_row_num |-> 0,
     compacted_file_count |-> 0]

InitCompaction ==
    /\ payload \in Payloads
    /\ file_params \in FileParams
    /\ self = NewBuilder(payload)
    /\ frame = None
    /\ old_to_new_remap = EmptyMap
    /\ record_loc_to_data_file_index = EmptyMap
    /\ pc = "compact_data_files"
    /\ panic = ""
    /\ result = None
    /\ inputs = <<>>
    /\ object_storage_cache = NewCache({}, FALSE, FALSE)
    /\ evicted_files_to_delete = <<>>

(***************************************************************************)
(* Steps of build().                                                       *)
(***************************************************************************)
\* An assertion failed: build() unwinds without a result.
Abort(reason) ==
    /\ pc' = "panicked"
    /\ panic' = reason
    /\ UNCHANGED <<payload, file_params, self, frame, old_to_new_remap,
                   record_loc_to_data_file_index, result, inputs>>

\* compact_data_files takes the next input file and
\* apply_deletion_vector_and_write opens it: the reader is built over its
\* num_rows rows, its deletion vector is loaded, the cursor starts at 0.
\* The cache is asked for the file first; the call keeps the handle it gets
\* and the files evicted.  The I/O errors of these calls are not modelled.
\* A file that the payload lists twice is the same file both times: it has
\* the same rows; each listing carries its own deletion vector.
OpenDataFile ==
    /\ UNCHANGED counterVars
    /\ pc = "compact_data_files"
    /\ self.disk_files # <<>>
    /\ \E num_rows \in 0..MaxRows :
         \E deleted \in SUBSET (0..(num_rows - 1)) :
          LET got == get_cache_entry(object_storage_cache, Head(self.disk_files)) IN
            /\ object_storage_cache' = got.cache
            /\ \A k \in 1..Len(inputs) :
                  inputs[k].file_id = Head(self.disk_files)
                      => inputs[k].num_rows = num_rows
            /\ frame' = Some([file_id |-> Head(self.disk_files),
                              rows_left |-> num_rows,
                              batch_deletion_vector |-> deleted,
                              old_start_row_idx |-> 0,
                              old_to_new_remap |-> EmptyMap,
                              record_loc_to_data_file_index_map |-> EmptyMap,
                              cache_handle |-> got.cache_handle,
                              evicted_files_to_delete |-> got.evicted_files])
            /\ inputs' = Append(inputs, [file_id |-> Head(self.disk_files),
                                         num_rows |-> num_rows,
                                         deleted |-> deleted])
    /\ self' = [self EXCEPT !.disk_files = Tail(@)]
    /\ pc' = "read_batches"
    /\ UNCHANGED <<payload, file_params, old_to_new_remap,
                   record_loc_to_data_file_index, panic, result,
                   evicted_files_to_delete>>

\* One turn of the while loop: the reader yields a batch of cur_num_rows rows.
ProcessBatch ==
    /\ UNCHANGED counterVars
    /\ UNCHANGED cacheVars
    /\ pc = "read_batches"
    /\ Unwrap(frame).rows_left > 0
    /\ \E cur_num_rows \in 1..Unwrap(frame).rows_left :
        LET f == Unwrap(frame)
            filtered_record_batch ==
                get_filtered_record_batch(f.batch_deletion_vector, cur_num_rows,
                                          f.old_start_row_idx)
            opened == initialize_arrow_writer_if_not(self, file_params.table_auto_incr_ids)
            written == write(opened.b, Cardinality(filtered_record_batch))
            remapped ==
                RemapRows([b |-> written,
                           index_map |-> f.record_loc_to_data_file_index_map,
                           remap |-> f.old_to_new_remap,
                           panic |-> ""],
                          f.file_id, f.batch_deletion_vector,
                          RowRange(f.old_start_row_idx, cur_num_rows))
        IN  IF Cardinality(filtered_record_batch) = 0
            THEN /\ frame' = Some([f EXCEPT
                        !.rows_left = @ - cur_num_rows,
                        !.old_start_row_idx = CursorAfterEmptyBatch(@, cur_num_rows)])
                 /\ UNCHANGED <<payload, file_params, self, old_to_new_remap,
                                record_loc_to_data_file_index, pc, panic, result, inputs>>
            ELSE IF opened.panic # ""
            THEN Abort(opened.panic)
            ELSE IF remapped.panic # ""
            THEN Abort(remapped.panic)
            ELSE /\ self' = remapped.b
                 /\ frame' = Some([f EXCEPT
                        !.rows_left = @ - cur_num_rows,
                        !.old_start_row_idx = CursorAfterWrittenBatch(@, cur_num_rows),
                        !.old_to_new_remap = remapped.remap,
                        !.record_loc_to_data_file_index_map = remapped.index_map])
                 /\ UNCHANGED <<payload, file_params, old_to_new_remap,
                                record_loc_to_data_file_index, pc, panic, result, inputs>>

\* Faulty variant of unpin: the handle is dropped without unreference.
unpin_skipped(cache, cache_handle, evicted) ==
    [cache |-> cache, evicted_files_to_delete |-> evicted]

\* The end of apply_deletion_vector_and_write: the cache handle, if the
\* call holds one, is unreferenced and the files this evicts are added to
\* the call's evicted files.
unpin(cache, cache_handle, evicted) ==
    IF IsSome(cache_handle)
    THEN LET released == unreference(cache, Unwrap(cache_handle)) IN
         [cache |-> released.cache,
          evicted_files_to_delete |-> evicted \o released.evicted_files]
    ELSE [cache |-> cache, evicted_files_to_delete |-> evicted]

\* Faulty variant of ShouldRoll: the footprint must exceed the target.
ShouldRollAboveTarget(b, data_file_final_size) ==
    /\ IsSome(b.cur_arrow_writer)
    /\ memory_size(Unwrap(b.cur_arrow_writer)) > data_file_final_size

\* Faulty variant of ShouldRoll: an open writer is rolled whatever its size.
ShouldRollAlways(b, data_file_final_size) ==
    IsSome(b.cur_arrow_writer)

\* The roll condition checked once the reader is exhausted.
ShouldRoll(b, data_file_final_size) ==
    /\ IsSome(b.cur_arrow_writer)
    /\ memory_size(Unwrap(b.cur_arrow_writer)) >= data_file_final_size

\* The reader is exhausted: roll the writer if it reached the target size,
\* unpin the cache handle, return the call's maps and evicted files, and
\* compact_data_files extends its own with them.
CloseDataFile ==
    /\ UNCHANGED counterVars
    /\ pc = "read_batches"
    /\ Unwrap(frame).rows_left = 0
    /\ LET f == Unwrap(frame)
           roll == ShouldRoll(self, file_params.data_file_final_size)
           flushed == flush_arrow_writer(self)
           unpinned == unpin(object_storage_cache, f.cache_handle,
                             f.evicted_files_to_delete)
       IN  IF roll /\ flushed.panic # ""
           THEN Abort(flushed.panic) /\ UNCHANGED cacheVars
           ELSE /\ self' = IF roll THEN flushed.b ELSE self
                /\ object_storage_cache' = unpinned.cache
                /\ evicted_files_to_delete' =
                       evicted_files_to_delete \o unpinned.evicted_files_to_delete
                /\ old_to_new_remap' = Extend(old_to_new_remap, f.old_to_new_remap)
                /\ record_loc_to_data_file_index' =
                       Extend(record_loc_to_data_file_index,
                              f.record_loc_to_data_file_index_map)
                /\ frame' = None
                /\ pc' = "compact_data_files"
                /\ UNCHANGED <<payload, file_params, panic, result, inputs>>

\* compact_data_files returned and every row was deleted: build() returns
\* a result without new files.
ReturnAllDeleted ==
    /\ UNCHANGED counterVars
    /\ UNCHANGED cacheVars
    /\ pc = "compact_data_files"
    /\ self.disk_files = <<>>
    /\ DOMAIN old_to_new_remap = {}
    /\ IF DOMAIN record_loc_to_data_file_index # {}
       THEN Abort("ordinal map not empty")
       ELSE /\ result' = Some([remapped_data_files |-> old_to_new_remap,
                               old_data_files |-> {payload[i] : i \in 1..Len(payload)},
                               new_data_files |-> <<>>,
                               new_file_indices |-> <<>>,
                               evicted_files_to_delete |-> evicted_files_to_delete])
            /\ pc' = "done"
            /\ UNCHANGED <<payload, file_params, self, frame, old_to_new_remap,
                           record_loc_to_data_file_index, panic, inputs>>

\* compact_data_files returned rows: flush and close the open data file.
FinalFlush ==
    /\ UNCHANGED counterVars
    /\ UNCHANGED cacheVars
    /\ pc = "compact_data_files"
    /\ self.disk_files = <<>>
    /\ DOMAIN old_to_new_remap # {}
    /\ LET flushed == flush_arrow_writer(self) IN
       IF IsSome(self.cur_arrow_writer) /\ flushed.panic # ""
       THEN Abort(flushed.panic)
       ELSE /\ self' = IF IsSome(self.cur_arrow_writer) THEN flushed.b ELSE self
            /\ pc' = "compact_file_indices"
            /\ UNCHANGED <<payload, file_params, frame, old_to_new_remap,
                           record_loc_to_data_file_index, panic, result, inputs>>

\* Faulty variant of count_index_file: the index file is not counted.
count_index_file_skipped(b) == b

\* compact_file_indices: the increment that follows the allocation of the
\* index file's id.
count_index_file(b) == [b EXCEPT !.compacted_file_count = @ + 1]

\* compact_file_indices, then build() returns the result.
CompactFileIndices ==
    /\ UNCHANGED counterVars
    /\ UNCHANGED cacheVars
    /\ pc = "compact_file_indices"
    /\ LET next == get_next_file_id(self, file_params.table_auto_incr_ids)
           counted == count_index_file(self)
           ordered == get_new_compacted_data_files(counted)
           merged == build_from_merge_for_compaction(
                         Cardinality(DOMAIN old_to_new_remap), next.file_id,
                         ordered.files, old_to_new_remap,
                         record_loc_to_data_file_index)
       IN  IF ~next.ok
           THEN Abort("file id range exhausted")
           ELSE IF ~ordered.ok
           THEN Abort("file ids out of order")
           ELSE IF ~merged.ok
           THEN Abort("ordinal lookup failed")
           ELSE /\ self' = counted
                /\ result' = Some([remapped_data_files |-> old_to_new_remap,
                                   old_data_files |-> {payload[i] : i \in 1..Len(payload)},
                                   new_data_files |-> counted.new_data_files,
                                   new_file_indices |-> <<merged.index>>,
                                   evicted_files_to_delete |-> evicted_files_to_delete])
                /\ pc' = "done"
                /\ UNCHANGED <<payload, file_params, frame, old_to_new_remap,
                               record_loc_to_data_file_index, panic, inputs>>

\* The fallible calls of build(), those followed by `?`.
ErrorSites ==
    {"get_cache_entry", "open file", "load deletion vector", "read batch",
     "create writer", "write batch", "flush", "final flush"}

\* The reader can still yield a batch that keeps a row.
BatchToWrite ==
    LET f == Unwrap(frame) IN
    \E cur_num_rows \in 1..f.rows_left :
        get_filtered_record_batch(f.batch_deletion_vector, cur_num_rows,
                                  f.old_start_row_idx) # {}

\* build() stands where the call of this site is made next.
AtErrorSite(site) ==
    CASE site = "get_cache_entry" ->
            pc = "compact_data_files" /\ self.disk_files # <<>>
      [] site \in {"open file", "load deletion vector"} ->
            /\ pc = "read_batches"
            /\ Unwrap(frame).rows_left = inputs[Len(inputs)].num_rows
            /\ Unwrap(frame).old_start_row_idx = 0
      [] site = "read batch" -> pc = "read_batches"
      [] site = "create writer" ->
            /\ pc = "read_batches" /\ BatchToWrite
            /\ ~IsSome(self.cur_arrow_writer)
            /\ get_next_file_id(self, file_params.table_auto_incr_ids).ok
      [] site = "write batch" ->
            /\ pc = "read_batches" /\ BatchToWrite
            /\ initialize_arrow_writer_if_not(
                   self, file_params.table_auto_incr_ids).panic = ""
      [] site = "flush" ->
            /\ pc = "read_batches"
            /\ Unwrap(frame).rows_left = 0
            /\ ShouldRoll(self, file_params.data_file_final_size)
      [] site = "final flush" ->
            /\ pc = "compact_data_files"
            /\ self.disk_files = <<>>
            /\ DOMAIN old_to_new_remap # {}
            /\ IsSome(self.cur_arrow_writer)

\* The Err that build() returns; which error it carries is not modelled.
Err == Some("Err")

\* A fallible call returns an error: `?` returns it from the running
\* function and from its callers, and build() returns it.  Nothing else
\* is executed on the way out: the locals of the functions returned from
\* are dropped, the cache is not called.
ReturnError ==
    /\ UNCHANGED counterVars
    /\ \E site \in ErrorSites : AtErrorSite(site)
    /\ result' = Err
    /\ pc' = "failed"
    /\ frame' = None
    /\ old_to_new_remap' = EmptyMap
    /\ record_loc_to_data_file_index' = EmptyMap
    /\ evicted_files_to_delete' = <<>>
    /\ UNCHANGED <<payload, file_params, self, panic, inputs, object_storage_cache>>

NextCompaction ==
    \/ ReturnError
    \/ OpenDataFile
    \/ ProcessBatch
    \/ CloseDataFile
    \/ ReturnAllDeleted
    \/ FinalFlush
    \/ CompactFileIndices


(***************************************************************************)
(* BatchIdCounter.                                                         *)
(***************************************************************************)
\* 2^63 and 2^64 at the modelled width.
Half == 2 ^ (CounterBits - 1)
Modulus == 2 ^ CounterBits
\* u64::MAX.
U64Max == Modulus - 1

\* The callers of the counter.
NumCallers == 2
Callers == 1..NumCallers

\* BatchIdCounter::new: the initial value of the atomic.
new(streaming) == IF streaming THEN 0 ELSE Half

\* Faulty variant of CheckLimit: both comparisons are off by one.
CheckLimitInclusive(streaming, current) ==
    IF streaming THEN current <= Half ELSE current <= U64Max

\* The two assert_lt! of next(): TRUE when the assertion passes.
CheckLimit(streaming, current) ==
    IF streaming THEN current < Half ELSE current < U64Max

\* Faulty variant of fetch_add: the new value is returned (add_fetch).
fetch_add_returns_new(value) ==
    [returned |-> (value + 1) % Modulus, stored |-> (value + 1) % Modulus]

\* AtomicU64::fetch_add(1): the value returned and the value stored
\* (wrapping on overflow).
fetch_add(value) ==
    [returned |-> value, stored |-> (value + 1) % Modulus]

\* Faulty variant of FetchAddOperand: the read-modify-write is split, and
\* the value that caller t loaded earlier is the one incremented.
FetchAddOperandStale(t) == callers[t].current

\* The value the atomic read-modify-write of caller t operates on: the
\* shared counter as it is at that instant, not the caller's `current`.
FetchAddOperand(t) == counter

NoCall == [op |-> "none", before |-> 0, value |-> 0]

IdleCaller == [pc |-> "idle", current |-> 0, ids |-> <<>>, last_call |-> NoCall]

InitCounter ==
    /\ is_streaming \in BOOLEAN
    /\ counter = new(is_streaming)
    /\ callers = [t \in Callers |-> IdleCaller]
    /\ issued_before = 0

\* BatchIdCounter::load called by t.
Load(t) ==
    /\ callers[t].pc = "idle"
    /\ callers' = [callers EXCEPT
            ![t].last_call = [op |-> "load", before |-> counter, value |-> counter]]
    /\ UNCHANGED <<counter, is_streaming, issued_before>>
    /\ UNCHANGED compactionVars

\* next() called by t, first statement: the relaxed load into `current`.
NextLoadCurrent(t) ==
    /\ callers[t].pc = "idle"
    /\ callers' = [callers EXCEPT ![t].pc = "loaded", ![t].current = counter]
    /\ UNCHANGED <<counter, is_streaming, issued_before>>
    /\ UNCHANGED compactionVars

\* next() called by t, the limit assertion fails: the call panics.
NextOverflow(t) ==
    /\ callers[t].pc = "loaded"
    /\ ~CheckLimit(is_streaming, callers[t].current)
    /\ callers' = [callers EXCEPT ![t].pc = "panicked"]
    /\ UNCHANGED <<counter, is_streaming, issued_before>>
    /\ UNCHANGED compactionVars

\* next() called by t, the limit assertion passes: fetch_add and return.
NextFetchAdd(t) ==
    /\ callers[t].pc = "loaded"
    /\ CheckLimit(is_streaming, callers[t].current)
    /\ LET r == fetch_add(FetchAddOperand(t)) IN
        /\ counter' = r.stored
        /\ callers' = [callers EXCEPT
                ![t].pc = "idle",
                ![t].ids = Append(@, r.returned),
                ![t].last_call = [op |-> "next", before |-> counter,
                                  value |-> r.returned]]
    /\ UNCHANGED <<is_streaming, issued_before>>
    /\ UNCHANGED compactionVars

(***************************************************************************)
(* Specifications.                                                         *)
(***************************************************************************)
\* A compaction: the counter is not in use.
Init ==
    /\ InitCompaction
    /\ is_streaming = TRUE
    /\ counter = new(is_streaming)
    /\ callers = [t \in Callers |-> IdleCaller]
    /\ issued_before = 0

Next == NextCompaction

Spec == Init /\ [][Next]_vars

\* The state of a builder that is not run.
IdleCompaction ==
    /\ payload = <<>>
    /\ file_params = [table_auto_incr_ids |-> [start |-> 0, end |-> 0],
                      data_file_final_size |-> 0]
    /\ self = NewBuilder(payload)
    /\ frame = None
    /\ old_to_new_remap = EmptyMap
    /\ record_loc_to_data_file_index = EmptyMap
    /\ pc = "idle"
    /\ panic = ""
    /\ result = None
    /\ inputs = <<>>
    /\ object_storage_cache = NewCache({}, FALSE, FALSE)
    /\ evicted_files_to_delete = <<>>

\* One counter used by a single caller.
InitCounterSingle == IdleCompaction /\ InitCounter

NextCounterSingle ==
    \/ Load(1)
    \/ NextLoadCurrent(1)
    \/ NextOverflow(1)
    \/ NextFetchAdd(1)

SpecCounterSingle == InitCounterSingle /\ [][NextCounterSingle]_vars

\* Payloads that list their first input file twice.
DuplicatePayloads ==
    {[i \in 1..k |-> IF i = 1 THEN 1 ELSE i - 1] : k \in 2..MaxFiles}

\* A compaction of a payload that lists an input file twice.
InitDuplicateInputs ==
    /\ payload \in DuplicatePayloads
    /\ file_params \in FileParams
    /\ self = NewBuilder(payload)
    /\ frame = None
    /\ old_to_new_remap = EmptyMap
    /\ record_loc_to_data_file_index = EmptyMap
    /\ pc = "compact_data_files"
    /\ panic = ""
    /\ result = None
    /\ inputs = <<>>
    /\ object_storage_cache = NewCache({}, FALSE, FALSE)
    /\ evicted_files_to_delete = <<>>
    /\ is_streaming = TRUE
    /\ counter = new(is_streaming)
    /\ callers = [t \in Callers |-> IdleCaller]
    /\ issued_before = 0

SpecDuplicateInputs == InitDuplicateInputs /\ [][NextCompaction]_vars

\* The caches tried: one that serves the input files 1..k through a handle
\* and the others in place, evicting on get, on unreference, on both or
\* on neither.
Caches ==
    {NewCache(1..k, g, u) : k \in 0..MaxFiles, g \in BOOLEAN, u \in BOOLEAN}

\* The file params tried with these caches: an id range that holds every
\* id the build asks for, with a target that rolls after every input file
\* and one that does not.
CacheFileParams ==
    {[table_auto_incr_ids |-> [start |-> MaxStart, end |-> MaxStart + MaxFiles],
      data_file_final_size |-> t] : t \in {0, MaxTarget}}

\* A compaction whose payload brings one of the caches.
InitCache ==
    /\ payload \in Payloads
    /\ file_params \in CacheFileParams
    /\ object_storage_cache \in Caches
    /\ self = NewBuilder(payload)
    /\ frame = None
    /\ old_to_new_remap = EmptyMap
    /\ record_loc_to_data_file_index = EmptyMap
    /\ pc = "compact_data_files"
    /\ panic = ""
    /\ result = None
    /\ inputs = <<>>
    /\ evicted_files_to_delete = <<>>
    /\ is_streaming = TRUE
    /\ counter = new(is_streaming)
    /\ callers = [t \in Callers |-> IdleCaller]
    /\ issued_before = 0

SpecCache == InitCache /\ [][NextCompaction]_vars

\* The number of next() calls after which a counter used by one caller
\* stands at the value where next() fails: 2^63 when streaming, u64::MAX
\* otherwise.
CallsToLimit(streaming) == IF streaming THEN Half ELSE U64Max - Half

\* The counters the concurrent callers start on: a fresh one, and the ones
\* that earlier calls brought to the limit or up to NumCallers ids below it.
IssuedBefore(streaming) ==
    {0} \cup {CallsToLimit(streaming) - d : d \in 0..NumCallers}

\* One counter shared by the callers of Callers, each of which makes at most
\* MaxCalls successful next() calls.
InitCounterConcurrent ==
    /\ IdleCompaction
    /\ is_streaming \in BOOLEAN
    /\ issued_before \in IssuedBefore(is_streaming)
    /\ counter = new(is_streaming) + issued_before
    /\ callers = [t \in Callers |-> IdleCaller]

\* Caller t has calls left to make.
CallsLeft(t) == Len(callers[t].ids) < MaxCalls

ConcurrentNextLoadCurrent(t) == CallsLeft(t) /\ NextLoadCurrent(t)

NextCounterConcurrent ==
    \E t \in Callers :
        \/ ConcurrentNextLoadCurrent(t)
        \/ NextOverflow(t)
        \/ NextFetchAdd(t)

SpecCounterConcurrent == InitCounterConcurrent /\ [][NextCounterConcurrent]_vars


(***************************************************************************)
(* Properties of a compaction (specification Spec).                        *)
(***************************************************************************)
\* build() returned Ok.
Returned == pc = "done"

\* The result build() returned and its remap.
Res == Unwrap(result)
Remap == Res.remapped_data_files

\* The post-compaction locations of a remap.
Posts(remap) == {remap[pre].record_location : pre \in DOMAIN remap}

\* The rows of the inputs read so far that their deletion vectors keep.
SurvivingRows ==
    UNION {{DiskFile(inputs[k].file_id, i) :
                i \in (0..(inputs[k].num_rows - 1)) \ inputs[k].deleted} :
           k \in 1..Len(inputs)}

\* Every row of every input read so far is deleted.
AllRowsDeleted ==
    \A k \in 1..Len(inputs) : inputs[k].deleted = 0..(inputs[k].num_rows - 1)

\* The positions (from 0) at which a file id occurs in a list of produced files.
Ordinals(files, file_id) == {k \in 0..(Len(files) - 1) : files[k + 1].file_id = file_id}

\* The positions at which an input file id occurs in the payload.
PayloadPositions(file_id) == {k \in 1..Len(payload) : payload[k] = file_id}

\* C1 (as claimed): after a successful build() the keys of the returned
\* remap are exactly the rows of the input files that the files' deletion
\* vectors do not mark deleted.
C1_RemapKeysAreSurvivingRows ==
    Returned => DOMAIN Remap = SurvivingRows

\* C2: after a successful build() the remap has as many entries as the
\* returned new data files have rows in total.
C2_RemapSizeIsSumOfNumRows ==
    Returned => Cardinality(DOMAIN Remap) = SumRows(Res.new_data_files)

C2_Witness ==
    /\ Returned
    /\ Len(Res.new_data_files) = 2
    /\ Cardinality(DOMAIN Remap) = 3
    /\ \E k \in 1..Len(inputs) : inputs[k].deleted # {}

\* C3: after a successful build() every remap entry points into a returned
\* data file (its file id and its file reference name that same file) at a
\* row index below the file's num_rows, no two keys share a new location,
\* and the row indices used in one output file are exactly 0..num_rows-1.
C3_PostLocationsDenseInOutputs ==
    Returned =>
        /\ \A pre \in DOMAIN Remap :
             \E k \in 1..Len(Res.new_data_files) :
                /\ Remap[pre].record_location[1] = Res.new_data_files[k].file_id
                /\ Remap[pre].new_data_file = Res.new_data_files[k].file_id
                /\ Remap[pre].record_location[2] < Res.new_data_files[k].num_rows
        /\ \A a, b \in DOMAIN Remap :
             Remap[a].record_location = Remap[b].record_location => a = b
        /\ \A k \in 1..Len(Res.new_data_files) :
             {post[2] : post \in {q \in Posts(Remap) :
                                      q[1] = Res.new_data_files[k].file_id}}
                 = 0..(Res.new_data_files[k].num_rows - 1)

C3_Witness ==
    /\ Returned
    /\ Len(Res.new_data_files) = 2
    /\ \E pre \in DOMAIN Remap :
         /\ Remap[pre].new_data_file = Res.new_data_files[2].file_id
         /\ Remap[pre].record_location[2] = 1

\* C4: once the data files are compacted and the last one is flushed, the
\* post->ordinal map is defined exactly on the new locations of the remap,
\* it maps a location to k iff the location's file id is that of
\* new_data_files[k] (k from 0), and the ordinal lookup of the index merge
\* never fails.
C4_OrdinalMapMatchesProductionOrder ==
    /\ panic # "ordinal lookup failed"
    /\ pc \in {"compact_file_indices", "done"} =>
          /\ DOMAIN record_loc_to_data_file_index = Posts(old_to_new_remap)
          /\ \A post \in DOMAIN record_loc_to_data_file_index :
               \A k \in 0..(Len(self.new_data_files) - 1) :
                  (record_loc_to_data_file_index[post] = k)
                      <=> (post[1] = self.new_data_files[k + 1].file_id)

C4_Witness ==
    /\ pc = "compact_file_indices"
    /\ Len(self.new_data_files) = 2
    /\ \E post \in DOMAIN record_loc_to_data_file_index :
         record_loc_to_data_file_index[post] = 1

\* C5: in a successful build() that produced data files, their file ids are
\* strictly increasing in production order and the file id of the merged
\* index is greater than each of them.
C5_FileIdsIncreaseIndexLast ==
    (Returned /\ Res.new_data_files # <<>>) =>
        /\ \A i, j \in 1..Len(Res.new_data_files) :
             i < j => Res.new_data_files[i].file_id < Res.new_data_files[j].file_id
        /\ Len(Res.new_file_indices) = 1
        /\ \A i \in 1..Len(Res.new_data_files) :
             Res.new_data_files[i].file_id < Res.new_file_indices[1].file_id

C5_Witness ==
    /\ Returned
    /\ Len(Res.new_data_files) = 2
    /\ Len(Res.new_file_indices) = 1
    /\ Res.new_file_indices[1].file_id =
           get_unique_file_id_for_flush(file_params.table_auto_incr_ids.start + 1, 0)

\* C6: while every row of every input read is deleted, no output file is
\* opened, no file id is allocated, the maps stay empty, no assertion fails
\* and the index merge is not reached, and build() returns an empty remap,
\* no new data files and no new index; and a result with a non-empty remap
\* carries exactly one new index.
C6_AllDeletedProducesNothing ==
    /\ AllRowsDeleted =>
          /\ self.cur_arrow_writer = None
          /\ self.cur_new_data_file = None
          /\ self.cur_row_num = 0
          /\ self.compacted_file_count = 0
          /\ self.new_data_files = <<>>
          /\ DOMAIN old_to_new_remap = {}
          /\ DOMAIN record_loc_to_data_file_index = {}
          /\ IsSome(frame) =>
                /\ DOMAIN Unwrap(frame).old_to_new_remap = {}
                /\ DOMAIN Unwrap(frame).record_loc_to_data_file_index_map = {}
          /\ panic = ""
          /\ pc \notin {"compact_file_indices", "panicked"}
          /\ Returned =>
                /\ DOMAIN Remap = {}
                /\ Res.new_data_files = <<>>
                /\ Res.new_file_indices = <<>>
    /\ (Returned /\ DOMAIN Remap # {}) => Len(Res.new_file_indices) = 1

C6_Witness ==
    /\ Returned
    /\ Len(inputs) = 2
    /\ \A k \in 1..Len(inputs) :
         inputs[k].num_rows = 2 /\ inputs[k].deleted = {0, 1}
    /\ Res.new_file_indices = <<>>

\* The writer is about to be finalized: the roll after an input file or
\* the final flush of build().
AboutToFlush ==
    \/ /\ pc = "read_batches"
       /\ Unwrap(frame).rows_left = 0
       /\ ShouldRoll(self, file_params.data_file_final_size)
    \/ /\ pc = "compact_data_files"
       /\ self.disk_files = <<>>
       /\ DOMAIN old_to_new_remap # {}
       /\ IsSome(self.cur_arrow_writer)

\* C7: whenever the writer is about to be finalized it holds rows and
\* bytes, so neither assertion of flush_arrow_writer fails, and every
\* produced data file has num_rows > 0 and file_size > 0.
C7_FlushedFilesAreNonEmpty ==
    /\ panic # "empty output file"
    /\ AboutToFlush =>
          /\ self.cur_row_num > 0
          /\ bytes_written(Unwrap(self.cur_arrow_writer)) > 0
    /\ \A i \in 1..Len(self.new_data_files) :
          /\ self.new_data_files[i].num_rows > 0
          /\ self.new_data_files[i].file_size > 0

C7_Witness ==
    /\ pc = "compact_file_indices"
    /\ Len(self.new_data_files) = 2
    /\ self.new_data_files[1].num_rows = 1
    /\ \E k \in 1..Len(inputs) : inputs[k].deleted # {}

\* Row a comes before row b in the input: its file is earlier in the
\* payload, or it is the same file and a's row index is smaller.
Precedes(a, b) ==
    \E i \in PayloadPositions(a[1]), j \in PayloadPositions(b[1]) :
        i < j \/ (i = j /\ a[2] < b[2])

\* New location p comes before new location q in (output file ordinal,
\* row index) order.
PostPrecedes(p, q) ==
    \E i \in Ordinals(Res.new_data_files, p[1]), j \in Ordinals(Res.new_data_files, q[1]) :
        i < j \/ (i = j /\ p[2] < q[2])

\* C8: in the returned remap, a row that comes before another row in the
\* input (payload order, then row index) gets the earlier new location
\* (output file ordinal, then row index); and when no deletion vector marks
\* a row, every input row is in the remap and in the output files.
C8_RowOrderPreserved ==
    Returned =>
        /\ \A a, b \in DOMAIN Remap :
             Precedes(a, b) =>
                 PostPrecedes(Remap[a].record_location, Remap[b].record_location)
        /\ (\A k \in 1..Len(inputs) : inputs[k].deleted = {}) =>
              /\ DOMAIN Remap = SurvivingRows
              /\ SumRows(Res.new_data_files) = SumRows(inputs)

C8_Witness ==
    /\ Returned
    /\ Len(Res.new_data_files) = 2
    /\ \E a, b \in DOMAIN Remap :
         /\ a[1] # b[1]
         /\ Precedes(a, b)
         /\ Remap[a].new_data_file # Remap[b].new_data_file
    /\ \E a, b \in DOMAIN Remap :
         /\ a[1] = b[1]
         /\ a[2] < b[2]


(***************************************************************************)
(* Properties of the batch id counter with one caller (specification       *)
(* SpecCounterSingle).                                                     *)
(***************************************************************************)
\* The first id of the counter's partition: 0 when streaming, else 2^63.
PartitionStart == IF is_streaming THEN 0 ELSE Half

\* C9: with one caller, a counter on which no next() completed holds 0
\* (streaming) or 2^63 (non-streaming); a completed next() returned the
\* value the counter held just before it and left the counter one higher,
\* so the ids returned are consecutive from the partition start; a
\* completed load() returned the counter's value and left it unchanged.
C9_NextReturnsCurrentAndIncrements ==
    LET c == callers[1] IN
    /\ c.ids = <<>> => counter = PartitionStart
    /\ \A i \in 1..Len(c.ids) : c.ids[i] = PartitionStart + i - 1
    /\ c.last_call.op = "next" =>
          /\ c.last_call.value = c.last_call.before
          /\ counter = c.last_call.before + 1
    /\ c.last_call.op = "load" =>
          /\ c.last_call.value = c.last_call.before
          /\ counter = c.last_call.before

C9_Witness ==
    /\ ~is_streaming
    /\ callers[1].ids = <<Half, Half + 1>>
    /\ callers[1].last_call.op = "load"
    /\ counter = Half + 2

\* The counter value at which next() must fail: at or above 2^63 when
\* streaming, u64::MAX otherwise.
AtLimit(value) == IF is_streaming THEN value >= Half ELSE value = U64Max

\* C10: with one caller, a next() call that passed its load ends in the
\* overflow failure iff the counter is at the partition's limit; a failing
\* call returns no id and leaves the counter unchanged, a succeeding call
\* returns the counter's value.
C10_OverflowExactlyAtLimit ==
    [][(callers[1].pc = "loaded" /\ callers'[1].pc # "loaded") =>
          /\ (callers'[1].pc = "panicked") <=> AtLimit(counter)
          /\ callers'[1].pc = "panicked" =>
                /\ counter' = counter
                /\ callers'[1].ids = callers[1].ids
          /\ callers'[1].pc = "idle" =>
                callers'[1].ids = Append(callers[1].ids, counter)]_vars

C10_Witness ==
    /\ is_streaming
    /\ callers[1].pc = "panicked"
    /\ callers[1].ids # <<>>
    /\ callers[1].ids[Len(callers[1].ids)] = Half - 1
    /\ counter = Half

\* Every id returned by a completed next(), with the call that returned it:
\* <<0, i>> is the i-th call completed before the callers started, <<t, i>>
\* the i-th successful call of caller t.
CallerCalls ==
    UNION {{<<t, i>> : i \in 1..Len(callers[t].ids)} : t \in Callers}

IssuedCalls == {<<0, i>> : i \in 1..issued_before} \cup CallerCalls

\* The id was returned by a call completed before the callers started.
IssuedBeforeCallers(id) ==
    new(is_streaming) <= id /\ id < new(is_streaming) + issued_before

IssuedId(call) ==
    IF call[1] = 0 THEN new(is_streaming) + call[2] - 1
    ELSE callers[call[1]].ids[call[2]]

\* C11: under every interleaving of the callers' load and fetch-add steps no
\* two completed next() calls of one allocator returned the same id, and
\* the K calls completed on a fresh streaming allocator returned exactly
\* the ids 0..K-1.  (Distinctness is that of the fewer than 2^64 ids the
\* callers obtain here; a counter that wrapped, see C13, re-issues ids
\* after 2^63 further calls.)
C11_ConcurrentIdsUniqueAndConsecutive ==
    /\ \A a, b \in CallerCalls : a # b => IssuedId(a) # IssuedId(b)
    /\ \A a \in CallerCalls : ~IssuedBeforeCallers(IssuedId(a))
    /\ (is_streaming /\ issued_before = 0) =>
            {IssuedId(a) : a \in CallerCalls} = 0..(Cardinality(CallerCalls) - 1)

\* Both callers of a fresh streaming allocator completed MaxCalls calls,
\* and caller 2 was returned another id than the value it had loaded.
C11_Witness ==
    /\ is_streaming /\ issued_before = 0
    /\ \A t \in Callers : Len(callers[t].ids) = MaxCalls
    /\ callers[2].last_call.op = "next"
    /\ callers[2].last_call.value # callers[2].current

\* The ids of the allocator's partition: [0, 2^63) when streaming,
\* [2^63, 2^64) otherwise.
InPartition(id) == PartitionStart <= id /\ id < PartitionStart + Half

\* C12: under any interleaving of the callers, and from any counter value
\* that earlier next() calls reached, every id returned by a streaming
\* allocator lies in [0, 2^63) and every id returned by a non-streaming
\* allocator lies in [2^63, 2^64), also when several callers loaded the
\* counter just below the partition limit before any of them incremented.
C12_IdsStayInPartition ==
    \A call \in IssuedCalls : InPartition(IssuedId(call))

\* C13: the counter of an allocator never decreases under any interleaving
\* of the callers (it does not wrap around), and the ids of one caller's
\* successive successful next() calls are strictly increasing.
C13_CounterAndIdsIncrease ==
    [][ /\ counter' >= counter
        /\ \A t \in Callers :
              \A i, j \in 1..Len(callers'[t].ids) :
                  i < j => callers'[t].ids[i] < callers'[t].ids[j] ]_vars

\* The input file being streamed, as OpenDataFile recorded it.
CurrentInput == inputs[Len(inputs)]

\* The number of rows of the batches decoded so far from the current file.
RowsDecoded == CurrentInput.num_rows - Unwrap(frame).rows_left

\* C14: while an input file is streamed, whenever a further batch is about
\* to be decoded and filtered the cursor old_start_row_idx equals the
\* number of rows of the batches decoded before it, also after a batch
\* whose filtered result was empty.
C14_CursorIsRowsDecoded ==
    (pc = "read_batches" /\ Unwrap(frame).rows_left > 0) =>
        Unwrap(frame).old_start_row_idx = RowsDecoded

\* The in-memory footprint of the open writer, and a step that writes a
\* batch to an output file which earlier batches were written to.
Footprint == memory_size(Unwrap(self.cur_arrow_writer))

WritesToOpenFile ==
    /\ IsSome(self.cur_arrow_writer)
    /\ IsSome(self'.cur_arrow_writer)
    /\ Unwrap(self'.cur_arrow_writer) > Unwrap(self.cur_arrow_writer)

\* C15 as stated: the roll check follows each batch write, so no batch is
\* written to an output file whose footprint had reached the target after
\* an earlier batch write, also when both batches come from one input file.
C15_NoWriteAfterTargetReached ==
    [][WritesToOpenFile => Footprint < file_params.data_file_final_size]_vars

\* C15 amended: the roll check is made once per input file, when its
\* reader is exhausted.  A batch is written to an output file whose
\* footprint had reached the target only when an earlier batch of the same
\* input file was written to it; the first written batch of an input file
\* never goes to such a file.
C15_RollCheckedPerInputFile ==
    [][(WritesToOpenFile /\ Footprint >= file_params.data_file_final_size)
            => DOMAIN Unwrap(frame).old_to_new_remap # {}]_vars

\* With a positive target, the second input file wrote a batch to the
\* output file that the first input file left open below the target.
C15_Witness ==
    /\ pc = "read_batches"
    /\ Len(inputs) = 2
    /\ file_params.data_file_final_size = MaxTarget
    /\ IsSome(self.cur_arrow_writer)
    /\ DOMAIN Unwrap(frame).old_to_new_remap # {}
    /\ self.cur_row_num > Cardinality(DOMAIN Unwrap(frame).old_to_new_remap)

\* A step that finalizes an output file, and the final flush of build().
FinalizesFile == Len(self'.new_data_files) > Len(self.new_data_files)

IsFinalFlush == pc = "compact_data_files" /\ pc' = "compact_file_indices"

\* C16: an output file is finalized below the target only by the final
\* flush of build(), after which no file is finalized: at every other
\* finalization the writer's footprint was >= the target, so every output
\* file of new_data_files but the last one reached the target.
C16_OnlyFinalFlushBelowTarget ==
    [][ /\ (FinalizesFile /\ ~IsFinalFlush) =>
              /\ IsSome(self.cur_arrow_writer)
              /\ Footprint >= file_params.data_file_final_size
        /\ pc \in {"compact_file_indices", "done"} => ~FinalizesFile ]_vars

\* build() returned two output files with a positive target: the first
\* was rolled at the target, the last one was flushed below it.
C16_Witness ==
    /\ Returned
    /\ file_params.data_file_final_size = MaxTarget
    /\ Len(Res.new_data_files) = 2
    /\ memory_size(Res.new_data_files[1].num_rows) >= MaxTarget
    /\ memory_size(Res.new_data_files[2].num_rows) < MaxTarget

\* The id range of the compaction and the number of file ids it holds.
IdRange == file_params.table_auto_incr_ids

Capacity == (IdRange.end - IdRange.start) * NUM_FILES_PER_FLUSH

\* The file ids packed from a table id of the range.
IdsOfRange ==
    {get_unique_file_id_for_flush(t, i) :
        t \in IdRange.start..(IdRange.end - 1), i \in 0..(NUM_FILES_PER_FLUSH - 1)}

\* The file ids the build has allocated for data files.
DataFileIds ==
    {self.new_data_files[i].file_id : i \in 1..Len(self.new_data_files)}
        \cup (IF IsSome(self.cur_new_data_file)
              THEN {Unwrap(self.cur_new_data_file)} ELSE {})

\* C17: with compacted_file_count = c and id range [start, end) the next
\* file id is pack(start + c div NUM_FILES_PER_FLUSH, c mod
\* NUM_FILES_PER_FLUSH), and the allocation succeeds exactly when
\* c < (end - start) * NUM_FILES_PER_FLUSH.  A build that returned k >= 1
\* data files allocated k + 1 ids, all of the range; a build fails on the
\* range assertion exactly when it asks for an id with every id of the
\* range taken, and no id outside the range is ever handed out.
C17_FileIdAllocation ==
    LET c == self.compacted_file_count
        next == get_next_file_id(self, IdRange)
    IN  /\ next.ok <=> c < Capacity
        /\ next.ok =>
              next.file_id =
                  get_unique_file_id_for_flush(
                      IdRange.start + c \div NUM_FILES_PER_FLUSH,
                      c % NUM_FILES_PER_FLUSH)
        /\ DataFileIds \subseteq IdsOfRange
        /\ panic = "file id range exhausted" => c = Capacity
        /\ (Returned /\ Res.new_data_files # <<>>) =>
              /\ Len(Res.new_data_files) + 1 <= Capacity
              /\ Res.new_file_indices[1].file_id \in IdsOfRange

\* The range holds two ids, two data files took them, and the allocation
\* of the index file id failed on the range assertion.
C17_Witness ==
    /\ pc = "panicked"
    /\ panic = "file id range exhausted"
    /\ Capacity = 2
    /\ Len(self.new_data_files) = 2
    /\ ~IsSome(self.cur_new_data_file)

\* The file ids the build has allocated for index files.
IndexFileIds ==
    IF Returned
    THEN {Res.new_file_indices[i].file_id : i \in 1..Len(Res.new_file_indices)}
    ELSE {}

\* C18: in every state of a build compacted_file_count is the number of
\* finalized data files plus the number of index file ids allocated; a
\* data file id allocated and not yet counted is the id of the one open
\* output file, which is closed and counted before another id is
\* allocated; so the ids allocated in one compaction, data files and index
\* file, are pairwise distinct.
C18_CountMatchesAllocations ==
    /\ self.compacted_file_count =
            Len(self.new_data_files) + Cardinality(IndexFileIds)
    /\ IsSome(self.cur_new_data_file) =>
            /\ Unwrap(self.cur_new_data_file)
                    = get_next_file_id(self, IdRange).file_id
            /\ pc \in {"compact_data_files", "read_batches", "panicked", "failed"}
    /\ Cardinality(DataFileIds) =
            Len(self.new_data_files)
                + (IF IsSome(self.cur_new_data_file) THEN 1 ELSE 0)
    /\ DataFileIds \cap IndexFileIds = {}

\* build() returned two data files and an index file: three ids counted.
C18_Witness ==
    /\ Returned
    /\ Len(Res.new_data_files) = 2
    /\ Len(Res.new_file_indices) = 1
    /\ self.compacted_file_count = 3

\* The step in which compact_data_files merges the entries of the input
\* file just streamed into the overall remap, and the keys of these
\* entries that the overall remap holds already.
MergesFileEntries == pc = "read_batches" /\ Unwrap(frame).rows_left = 0

KeysInsertedAgain ==
    DOMAIN Unwrap(frame).old_to_new_remap \cap DOMAIN old_to_new_remap

\* C19: no insertion into the pre->post remap overwrites an existing key
\* silently: when the entries of an input file are merged into the overall
\* remap and one of their keys is a key already, the compaction stops with
\* an invariant failure, e.g. when the payload lists a file id twice.
C19_NoSilentOverwrite ==
    [][(MergesFileEntries /\ KeysInsertedAgain # {}) => pc' = "panicked"]_vars

\* The handles that the cache returned and that were not unreferenced, as
\* long as no handle was unreferenced that the cache had not returned.
RECURSIVE RemoveAll(_, _)
RemoveAll(handles, unreferenced) ==
    IF unreferenced = <<>> THEN handles
    ELSE RemoveAll(SelectSeq(handles, LAMBDA h : h # Head(unreferenced)),
                   Tail(unreferenced))

Pinned == RemoveAll(object_storage_cache.handles, object_storage_cache.unreferenced)

\* build() has not failed.
OnSuccessPath == pc \notin {"panicked", "failed"}

\* The evicted files that the build has collected: those of the files
\* done, then those of the running apply_deletion_vector_and_write call.
EvictedCollected ==
    evicted_files_to_delete
        \o (IF IsSome(frame) THEN Unwrap(frame).evicted_files_to_delete ELSE <<>>)

\* C20: on the success path the handle that get_cache_entry returned for
\* an input file is unreferenced once, after the file's batches and before
\* the next file is fetched: the handles unreferenced are the handles
\* returned, in order and without the one of the file being streamed, so
\* at most one handle is pinned, and none between two files or when
\* build() returns; the evicted files collected, and returned in the
\* result also when every row was deleted, are the concatenation in call
\* order of the evicted files of every get_cache_entry and unreference.
C20_HandlesUnpinnedEvictedCollected ==
    OnSuccessPath =>
        /\ Pinned = (IF IsSome(frame) THEN Unwrap(frame).cache_handle ELSE <<>>)
        /\ object_storage_cache.handles
                = object_storage_cache.unreferenced \o Pinned
        /\ pc \in {"compact_data_files", "compact_file_indices", "done"}
                => Pinned = <<>>
        /\ EvictedCollected = object_storage_cache.evicted
        /\ Returned =>
                Res.evicted_files_to_delete = object_storage_cache.evicted

\* build() returned after two input files, both served through a handle,
\* with a cache that evicted a file on each of its four calls.
C20_Witness ==
    /\ Returned
    /\ Len(inputs) = 2
    /\ Len(object_storage_cache.unreferenced) = 2
    /\ Len(Res.evicted_files_to_delete) = 4

\* The same on the path where every row was deleted.
C20_WitnessAllDeleted ==
    /\ C20_Witness
    /\ Res.new_data_files = <<>>

\* build() terminated with a result or with an error.
Terminated == pc \in {"done", "failed"}

\* C21: whenever build() terminates, with a result or with an error raised
\* after a cache handle was acquired, no cache handle that the build
\* acquired remains referenced.
C21_NoHandlePinnedAtTermination ==
    Terminated => Pinned = <<>>

\* The output writer is Open (a writer on a current output file) or Idle
\* (neither, and no row counted).
WriterOpen(b) == IsSome(b.cur_arrow_writer) /\ IsSome(b.cur_new_data_file)

WriterIdle(b) ==
    ~IsSome(b.cur_arrow_writer) /\ ~IsSome(b.cur_new_data_file) /\ b.cur_row_num = 0

\* A step that sets the current output file, or sets another one.
OpensFile ==
    IsSome(self'.cur_new_data_file) /\ self'.cur_new_data_file # self.cur_new_data_file

\* C22: in every state of a build that has not failed the output writer is
\* Open or Idle, Idle when the index file id is allocated; a step opens a
\* file only while none is open, allocating the next file id for it, and
\* only to write a non-empty filtered batch of the input file being
\* streamed to it in the same step.
C22_WriterIsTwoStateMachine ==
    [][ /\ OnSuccessPath => (WriterOpen(self) \/ WriterIdle(self))
        /\ OnSuccessPath' => (WriterOpen(self') \/ WriterIdle(self'))
        /\ pc = "compact_file_indices" => WriterIdle(self)
        /\ OpensFile =>
              /\ WriterIdle(self)
              /\ pc = "read_batches"
              /\ Unwrap(self'.cur_new_data_file)
                    = get_next_file_id(self, IdRange).file_id
              /\ WriterOpen(self')
              /\ Unwrap(self'.cur_arrow_writer) > 0
              /\ self'.cur_row_num = Unwrap(self'.cur_arrow_writer) ]_vars

\* A second output file was opened after the first one was rolled.
C22_Witness ==
    /\ pc = "read_batches"
    /\ Len(self.new_data_files) = 1
    /\ WriterOpen(self)
    /\ self.cur_row_num > 0

\* Two consecutive produced output files have non-increasing file ids.
ProducedOutOfOrder ==
    \E i \in 1..(Len(self.new_data_files) - 1) :
        self.new_data_files[i].file_id >= self.new_data_files[i + 1].file_id

\* C23: the ordering check on the produced output files fails only when
\* two consecutive produced files have non-increasing file ids, whatever
\* the id range, a range that starts at 0 included.
C23_OrderingCheckRejectsOnlyDisorder ==
    (pc = "panicked" /\ panic = "file ids out of order") => ProducedOutOfOrder

====
